---- MODULE Spec2Model ----
(***************************************************************************)
(* OptiPix: the image list controller of App (src/components/ImageCard.tsx *)
(* lines 215-410, 515) as a state machine.                                 *)
(*                                                                         *)
(* React state is modelled at the level the React API documents:           *)
(*  - setImages(updater) queues the updater; updaters are applied in the   *)
(*    order they were queued, each to the result of the one before.  The   *)
(*    variable `images` is the head of that chain (the `prev` the next     *)
(*    updater will see); every updater is one step, so every status        *)
(*    change of every item is visible as a step.                           *)
(*  - a render commits the head of the chain: `rendered` is the `images`   *)
(*    value the closures of the last render see (the effect body and the   *)
(*    event handlers read it), and several queued updaters may be          *)
(*    committed by one render (batching).                                  *)
(*  - the effect with dependency [images] runs once after every commit,    *)
(*    before the next commit.  Results of awaited calls are not ordered    *)
(*    with renders and effects: an updater may be queued between a commit  *)
(*    and the run of its effect.                                           *)
(***************************************************************************)
EXTENDS Integers, Sequences, FiniteSets, TLC

\* ---------------------------------------------------------------- bounds
MaxIds == 2          \* image files taken in over a run
MaxUpdates == 1      \* settings updates applied over a run
MaxBatch == 2        \* files in one intake batch
MaxIntakes == 1      \* handleFiles calls in progress at the same time
MaxZipItems == 3     \* items of a collection handed to the download handlers

\* ------------------------------------------------------------- constants
IDLE == "idle"
CONVERTING == "converting"
COMPLETED == "completed"
ERROR == "error"
ProcessingStatus == {IDLE, CONVERTING, COMPLETED, ERROR}

WEBP == "image/webp"
AVIF == "image/avif"
\* the formats the controls of the card and of the toolbar can select
Formats == {WEBP, AVIF}
\* quality in percent: the default 0.8 and one other position of the slider
DefaultQuality == 80
OtherQuality == 50
Qualities == {DefaultQuality, OtherQuality}
ConversionSettings == [format : Formats, quality : Qualities]

NullUrl == 0
\* the MIME type of a Blob: the part before the '/' and the characters after it
MimeType(sub) == [major |-> "image", sub |-> sub]
NoType == [major |-> "none", sub |-> <<>>]
NullBlob == [format |-> "none", quality |-> 0, size |-> 0, type |-> NoType]
\* altText?: string, undefined until a caption is stored
NoAltText == [defined |-> FALSE, text |-> <<>>]

\* a File: its name, character by character, its MIME type split at the '/',
\* and its size
ImageFile == [name |-> <<"a", ".", "p", "n", "g">>, type |-> <<"image", "png">>, size |-> 9]
TextFile == [name |-> <<"n", ".", "t", "x", "t">>, type |-> <<"text", "plain">>, size |-> 2]
FileSet == {ImageFile, TextFile}
FileLists == UNION {[1..n -> FileSet] : n \in 1..MaxBatch}

\* no downloadBlob call yet
NoDownload == [name |-> <<>>, blob |-> NullBlob, entries |-> <<>>]

\* Partial<ConversionSettings> as the card's controls produce it: one field
PartialSettings ==
  [field : {"format"}, value : Formats] \cup [field : {"quality"}, value : Qualities]

VARIABLES
  images,          \* head of the setImages updater chain (`prev`)
  rendered,        \* `images` as committed by the last render (closures read it)
  dirty,           \* a setImages call was made since the last render
  effectPending,   \* the [images] effect of the last render has not run yet
  tasks,           \* running processIdleImages calls: idleImages and the loop's position i
  intake,          \* running handleFiles calls
  globalSettings,
  nextId,          \* ids handed out so far + 1 (crypto.randomUUID never repeats)
  nextUrl,         \* object URLs created so far + 1 (URL.createObjectURL)
  released,        \* object URL -> number of URL.revokeObjectURL calls on it
  picks,           \* history: id -> converter invocations the watcher enrolled for it
  resets,          \* history: id -> times the item was made IDLE (creation, settings updates)
  invoked,         \* history: id -> settings the converter has been invoked with for it
  captions,        \* running handleGenerateAlt calls: the id each was called for
  isZipping,       \* the isZipping state
  zipping,         \* the archives zip.generateAsync is producing
  downloaded       \* the last downloadBlob call: file name and content

\* the state of captioning and of the downloads
sideVars == <<captions, isZipping, zipping, downloaded>>

vars == <<images, rendered, dirty, effectPending, tasks, intake, globalSettings,
          nextId, nextUrl, released, picks, resets, invoked, sideVars>>

Ids == 1..MaxIds

\* ---------------------------------------------------------------- helpers
IdsOf(list) == {list[i].id : i \in DOMAIN list}

ItemOf(list, id) == list[CHOOSE i \in DOMAIN list : list[i].id = id]

\* mutant: the watcher also picks the items that are being converted
IsIdle_OrConverting(img) == img.status \in {IDLE, CONVERTING}

IsIdle(img) == img.status = IDLE

\* images.filter(img => img.status === IDLE)
IdleImages(list) == SelectSeq(list, IsIdle)

\* mutant: files of any type are read
ImageFiles_AnyType(files) == files

RECURSIVE ImageFiles(_)
\* the files of a batch that pass `file.type.startsWith('image/')`, in order
ImageFiles(files) ==
  IF files = <<>> THEN <<>>
  ELSE IF Head(files).type[1] = "image"
       THEN <<Head(files)>> \o ImageFiles(Tail(files))
       ELSE ImageFiles(Tail(files))

\* fileToDataURL resolving: the data URL of the file's content
DataURL(file) == [mime |-> file.type, data |-> file.name]

\* the item handleFiles pushes for a readable image file
NewImage(id, file, settings) ==
  [id |-> id, originalFile |-> file, previewUrl |-> DataURL(file), status |-> IDLE,
   originalSize |-> file.size, settings |-> settings,
   convertedBlob |-> NullBlob, convertedUrl |-> NullUrl, convertedSize |-> 0,
   altText |-> NoAltText, isGeneratingAlt |-> FALSE]

\* convertImageClientSide resolving: the blob for a format and a quality
BlobSize(format, quality) == (IF format = WEBP THEN 2 ELSE 1) + (IF quality = DefaultQuality THEN 2 ELSE 0)
\* the blob is tagged with the MIME type of the target format
TypeOfFormat(format) ==
  IF format = WEBP THEN MimeType(<<"w", "e", "b", "p">>) ELSE MimeType(<<"a", "v", "i", "f">>)
ConvertedBlob(format, quality) ==
  [format |-> format, quality |-> quality, size |-> BlobSize(format, quality),
   type |-> TypeOfFormat(format)]

\* --------------------------------------------------------------- updaters
\* mutant: the watcher converts without marking the items first
MarkConverting_Skipped(prev) == prev

\* prev.map(img => img.status === IDLE ? {...img, status: CONVERTING} : img)
MarkConverting(prev) ==
  [i \in DOMAIN prev |->
     IF prev[i].status = IDLE THEN [prev[i] EXCEPT !.status = CONVERTING] ELSE prev[i]]

\* mutant: the completion stores the blob and the URL but not the size
ApplyCompleted_SizeNotSet(prev, id, blob, url) ==
  [i \in DOMAIN prev |->
     IF prev[i].id = id
     THEN [prev[i] EXCEPT !.status = COMPLETED, !.convertedBlob = blob, !.convertedUrl = url]
     ELSE prev[i]]

\* the updater of a resolved conversion
ApplyCompleted(prev, id, blob, url) ==
  [i \in DOMAIN prev |->
     IF prev[i].id = id
     THEN [prev[i] EXCEPT !.status = COMPLETED, !.convertedBlob = blob,
                          !.convertedUrl = url, !.convertedSize = blob.size]
     ELSE prev[i]]

\* mutant: a failed conversion also drops the output the item held
ApplyError_DropsOutput(prev, id) ==
  [i \in DOMAIN prev |->
     IF prev[i].id = id
     THEN [prev[i] EXCEPT !.status = ERROR, !.convertedBlob = NullBlob,
                          !.convertedUrl = NullUrl, !.convertedSize = 0]
     ELSE prev[i]]

\* the updater of a rejected conversion
ApplyError(prev, id) ==
  [i \in DOMAIN prev |->
     IF prev[i].id = id THEN [prev[i] EXCEPT !.status = ERROR] ELSE prev[i]]

\* mutant: the field that is not supplied falls back to the initial defaults
MergeSettings_OverDefaults(settings, newSettings) ==
  IF newSettings.field = "format"
  THEN [format |-> newSettings.value, quality |-> DefaultQuality]
  ELSE [format |-> WEBP, quality |-> newSettings.value]

\* { ...img.settings, ...newSettings }
MergeSettings(settings, newSettings) ==
  IF newSettings.field = "format"
  THEN [settings EXCEPT !.format = newSettings.value]
  ELSE [settings EXCEPT !.quality = newSettings.value]

\* mutant: the settings update also drops the output the item held
ApplySettings_DropsOutput(prev, id, newSettings) ==
  [i \in DOMAIN prev |->
     IF prev[i].id = id
     THEN [prev[i] EXCEPT !.settings = MergeSettings(@, newSettings), !.status = IDLE,
                          !.convertedBlob = NullBlob, !.convertedUrl = NullUrl,
                          !.convertedSize = 0]
     ELSE prev[i]]

\* the updater of handleUpdateImageSettings
ApplySettings(prev, id, newSettings) ==
  [i \in DOMAIN prev |->
     IF prev[i].id = id
     THEN [prev[i] EXCEPT !.settings = MergeSettings(@, newSettings), !.status = IDLE]
     ELSE prev[i]]

\* mutant: the removal revokes the URL but leaves the item in the collection
WithoutId_Keeps(prev, id) == prev

\* prev.filter(p => p.id !== id)
WithoutId(prev, id) == SelectSeq(prev, LAMBDA p : p.id # id)

\* URL.revokeObjectURL(url)
Revoke(rel, url) == [rel EXCEPT ![url] = @ + 1]

\* mutant: the URL the item holds is never revoked
RevokeHeld_None(rel, prev, id) == rel

\* if (p.convertedUrl) URL.revokeObjectURL(p.convertedUrl), for the item `id` of prev
RevokeHeld(rel, prev, id) ==
  IF id \in IdsOf(prev) /\ ItemOf(prev, id).convertedUrl # NullUrl
  THEN Revoke(rel, ItemOf(prev, id).convertedUrl)
  ELSE rel

\* a sequence without its k-th element
RemoveAt(seq, k) == SubSeq(seq, 1, k - 1) \o SubSeq(seq, k + 1, Len(seq))

\* the item the for-loop of a processIdleImages call is converting
Current(task) == task.idleImages[task.i]

\* mutant: the try/catch is around the loop, a conversion's end ends the call
LoopAdvance_Aborts(ts, t) == RemoveAt(ts, t)

\* the for-loop of processIdleImages after the conversion of its current item
\* returned or threw: on to the next item, the call ends after the last one
LoopAdvance(ts, t) ==
  IF ts[t].i = Len(ts[t].idleImages) THEN RemoveAt(ts, t) ELSE [ts EXCEPT ![t].i = @ + 1]

RECURSIVE SumOver(_, _)
SumOver(f, S) ==
  IF S = {} THEN 0 ELSE LET x == CHOOSE y \in S : TRUE IN f[x] + SumOver(f, S \ {x})

\* settings updates applied so far: the resets that were not an item's creation
UpdatesDone(rs) == SumOver(rs, DOMAIN rs) - Cardinality({id \in DOMAIN rs : rs[id] > 0})

\* the converter is called for the item the loop of task t now stands at
NoteInvoked(inv, img) == [inv EXCEPT ![img.id] = @ \cup {img.settings}]

\* ------------------------------------------------------------------- Init
Init ==
  /\ images = <<>>
  /\ rendered = <<>>
  /\ dirty = FALSE
  /\ effectPending = FALSE
  /\ tasks = <<>>
  /\ intake = <<>>
  /\ globalSettings = [format |-> WEBP, quality |-> DefaultQuality]
  /\ nextId = 1
  /\ nextUrl = 1
  /\ released = <<>>
  /\ picks = [id \in Ids |-> 0]
  /\ resets = [id \in Ids |-> 0]
  /\ invoked = [id \in Ids |-> {}]
  /\ captions = <<>>
  /\ isZipping = FALSE
  /\ zipping = <<>>
  /\ downloaded = NoDownload

\* ---------------------------------------------------------------- actions
\* React renders: the queued updaters are committed, the effect is scheduled
Render ==
  /\ dirty
  /\ ~effectPending
  /\ rendered' = images
  /\ dirty' = FALSE
  /\ effectPending' = TRUE
  /\ UNCHANGED <<images, tasks, intake, globalSettings, nextId, nextUrl, released,
                 picks, resets, invoked, sideVars>>

\* useEffect(..., [images]) finding no IDLE item: processIdleImages returns
ProcessIdleImagesNone ==
  /\ effectPending
  /\ Len(IdleImages(rendered)) = 0
  /\ effectPending' = FALSE
  /\ UNCHANGED <<images, rendered, dirty, tasks, intake, globalSettings, nextId,
                 nextUrl, released, picks, resets, invoked, sideVars>>

\* mutant: the converter is called for every item of the batch at once
ProcessIdleImages_InvokesAll ==
  /\ effectPending
  /\ LET idleImages == IdleImages(rendered) IN
       /\ Len(idleImages) # 0
       /\ images' = MarkConverting(images)
       /\ tasks' = Append(tasks, [idleImages |-> idleImages, i |-> 1])
       /\ picks' = [id \in Ids |-> IF id \in IdsOf(idleImages) THEN picks[id] + 1 ELSE picks[id]]
       /\ invoked' = [id \in Ids |->
                        invoked[id] \cup {idleImages[k].settings :
                                             k \in {j \in DOMAIN idleImages : idleImages[j].id = id}}]
  /\ dirty' = TRUE
  /\ effectPending' = FALSE
  /\ UNCHANGED <<rendered, intake, globalSettings, nextId, nextUrl, released, resets, sideVars>>

\* useEffect(..., [images]) with IDLE items: mark, then convert the first one
ProcessIdleImages ==
  /\ effectPending
  /\ LET idleImages == IdleImages(rendered) IN
       /\ Len(idleImages) # 0
       /\ images' = MarkConverting(images)
       /\ tasks' = Append(tasks, [idleImages |-> idleImages, i |-> 1])
       /\ picks' = [id \in Ids |-> IF id \in IdsOf(idleImages) THEN picks[id] + 1 ELSE picks[id]]
       /\ invoked' = NoteInvoked(invoked, Head(idleImages))
  /\ dirty' = TRUE
  /\ effectPending' = FALSE
  /\ UNCHANGED <<rendered, intake, globalSettings, nextId, nextUrl, released, resets, sideVars>>

\* the history of the converter calls after task t's loop moved on
InvokedAfter(ts, t) ==
  IF ts[t].i = Len(ts[t].idleImages) THEN invoked
  ELSE NoteInvoked(invoked, ts[t].idleImages[ts[t].i + 1])

\* mutant: the object URL is created before the item is looked up
ConvertResolved_CreatesUrl(t) ==
  /\ t \in DOMAIN tasks
  /\ LET img == Current(tasks[t])
         blob == ConvertedBlob(img.settings.format, img.settings.quality)
     IN /\ images' = ApplyCompleted(images, img.id, blob, nextUrl)
        /\ released' = Append(RevokeHeld(released, images, img.id), 0)
        /\ nextUrl' = nextUrl + 1
  /\ dirty' = TRUE
  /\ tasks' = LoopAdvance(tasks, t)
  /\ invoked' = InvokedAfter(tasks, t)
  /\ UNCHANGED <<rendered, effectPending, intake, globalSettings, nextId, picks, resets, sideVars>>

\* `await convertImageClientSide(...)` of task t resolves with a blob
ConvertResolved(t) ==
  /\ t \in DOMAIN tasks
  /\ LET img == Current(tasks[t])
         blob == ConvertedBlob(img.settings.format, img.settings.quality)
     IN IF img.id \in IdsOf(images)
        THEN /\ images' = ApplyCompleted(images, img.id, blob, nextUrl)
             /\ released' = Append(RevokeHeld(released, images, img.id), 0)
             /\ nextUrl' = nextUrl + 1
        ELSE /\ images' = images
             /\ UNCHANGED <<released, nextUrl>>
  /\ dirty' = TRUE
  /\ tasks' = LoopAdvance(tasks, t)
  /\ invoked' = InvokedAfter(tasks, t)
  /\ UNCHANGED <<rendered, effectPending, intake, globalSettings, nextId, picks, resets, sideVars>>

\* `await convertImageClientSide(...)` of task t throws
ConvertRejected(t) ==
  /\ t \in DOMAIN tasks
  /\ images' = ApplyError(images, Current(tasks[t]).id)
  /\ dirty' = TRUE
  /\ tasks' = LoopAdvance(tasks, t)
  /\ invoked' = InvokedAfter(tasks, t)
  /\ UNCHANGED <<rendered, effectPending, intake, globalSettings, nextId, nextUrl,
                 released, picks, resets, sideVars>>

\* handleUpdateImageSettings(id, newSettings), from the card of a rendered item
HandleUpdateImageSettings(id, newSettings) ==
  /\ id \in IdsOf(rendered)
  /\ UpdatesDone(resets) < MaxUpdates
  /\ images' = ApplySettings(images, id, newSettings)
  /\ dirty' = TRUE
  /\ resets' = [resets EXCEPT ![id] = IF id \in IdsOf(images) THEN @ + 1 ELSE @]
  /\ UNCHANGED <<rendered, effectPending, tasks, intake, globalSettings, nextId,
                 nextUrl, released, picks, invoked, sideVars>>

\* handleRemove(id), from the card of a rendered item
HandleRemove(id) ==
  /\ id \in IdsOf(rendered)
  /\ released' = RevokeHeld(released, images, id)
  /\ images' = WithoutId(images, id)
  /\ dirty' = TRUE
  /\ UNCHANGED <<rendered, effectPending, tasks, intake, globalSettings, nextId,
                 nextUrl, picks, resets, invoked, sideVars>>

\* "Limpar Todos": setImages([])
ClearAll ==
  /\ Len(rendered) > 0
  /\ images' = <<>>
  /\ dirty' = TRUE
  /\ UNCHANGED <<rendered, effectPending, tasks, intake, globalSettings, nextId,
                 nextUrl, released, picks, resets, invoked, sideVars>>

\* mutant: the new global settings are also applied to every existing item
SetGlobalSettings_Retroactive(newSettings) ==
  /\ Len(rendered) > 0
  /\ globalSettings' = MergeSettings(globalSettings, newSettings)
  /\ globalSettings' # globalSettings
  /\ images' = [i \in DOMAIN images |->
                  [images[i] EXCEPT !.settings = MergeSettings(@, newSettings), !.status = IDLE]]
  /\ dirty' = TRUE
  /\ UNCHANGED <<rendered, effectPending, tasks, intake, nextId,
                 nextUrl, released, picks, resets, invoked, sideVars>>

\* the toolbar's global format buttons and quality slider
SetGlobalSettings(newSettings) ==
  /\ Len(rendered) > 0
  /\ globalSettings' = MergeSettings(globalSettings, newSettings)
  /\ globalSettings' # globalSettings
  /\ UNCHANGED <<images, rendered, dirty, effectPending, tasks, intake, nextId,
                 nextUrl, released, picks, resets, invoked, sideVars>>

\* image files of the handleFiles calls in progress that are still to be read
RECURSIVE FilesInFlight(_)
FilesInFlight(calls) ==
  IF calls = <<>> THEN 0 ELSE Len(Head(calls).files) + FilesInFlight(Tail(calls))

\* handleFiles(fileList) up to its first await
HandleFiles(fileList) ==
  /\ Len(intake) < MaxIntakes
  /\ LET files == ImageFiles(fileList) IN
       /\ (nextId - 1) + FilesInFlight(intake) + Len(files) <= MaxIds
       /\ IF files = <<>>
          THEN /\ dirty' = TRUE
               /\ UNCHANGED intake
          ELSE /\ intake' = Append(intake, [files |-> files, newImages |-> <<>>,
                                            settings |-> globalSettings,
                                            fileList |-> fileList, reads |-> <<>>])
               /\ UNCHANGED dirty
  /\ UNCHANGED <<images, rendered, effectPending, tasks, globalSettings, nextId,
                 nextUrl, released, picks, resets, invoked, sideVars>>

\* `await fileToDataURL(file)` of the k-th handleFiles call returns (ok) or throws
FileRead(k, ok) ==
  /\ k \in DOMAIN intake
  /\ LET call == intake[k]
         rest == Tail(call.files)
         newImages == IF ok
                      THEN Append(call.newImages, NewImage(nextId, Head(call.files), call.settings))
                      ELSE call.newImages
     IN /\ nextId' = IF ok THEN nextId + 1 ELSE nextId
        /\ IF rest = <<>>
           THEN /\ images' = images \o newImages
                /\ dirty' = TRUE
                /\ intake' = RemoveAt(intake, k)
                /\ resets' = [id \in Ids |-> IF id \in IdsOf(newImages) THEN 1 ELSE resets[id]]
           ELSE /\ intake' = [intake EXCEPT ![k] = [files |-> rest, newImages |-> newImages,
                                                    settings |-> call.settings,
                                                    fileList |-> call.fileList,
                                                    reads |-> Append(call.reads, ok)]]
                /\ UNCHANGED <<images, dirty, resets>>
  /\ UNCHANGED <<rendered, effectPending, tasks, globalSettings, nextUrl, released,
                 picks, invoked, sideVars>>

Next ==
  \/ Render
  \/ ProcessIdleImagesNone
  \/ ProcessIdleImages
  \/ \E t \in DOMAIN tasks : ConvertResolved(t)
  \/ \E t \in DOMAIN tasks : ConvertRejected(t)
  \/ \E id \in Ids, newSettings \in PartialSettings : HandleUpdateImageSettings(id, newSettings)
  \/ \E id \in Ids : HandleRemove(id)
  \/ ClearAll
  \/ \E newSettings \in PartialSettings : SetGlobalSettings(newSettings)
  \/ \E fileList \in FileLists : HandleFiles(fileList)
  \/ \E k \in DOMAIN intake : FileRead(k, TRUE)
  \/ \E k \in DOMAIN intake : FileRead(k, FALSE)

Spec == Init /\ [][Next]_vars

\* ----------------------------------------------------------------- intake
\* a second image file, to tell the order of a batch
JpegFile == [name |-> <<"b", ".", "j", "p", "g">>, type |-> <<"image", "jpeg">>, size |-> 7]

\* the batches dropped or picked: image files and other files in any order
IntakeFileLists == UNION {[1..n -> {ImageFile, JpegFile, TextFile}] : n \in 1..(MaxBatch + 1)}

\* intake together with the life of the items that are already there
IntakeNext ==
  \/ Render
  \/ ProcessIdleImagesNone
  \/ ProcessIdleImages
  \/ \E t \in DOMAIN tasks : ConvertResolved(t)
  \/ \E t \in DOMAIN tasks : ConvertRejected(t)
  \/ \E id \in Ids, newSettings \in PartialSettings : HandleUpdateImageSettings(id, newSettings)
  \/ \E id \in Ids : HandleRemove(id)
  \/ \E fileList \in IntakeFileLists : HandleFiles(fileList)
  \/ \E k \in DOMAIN intake : FileRead(k, TRUE)
  \/ \E k \in DOMAIN intake : FileRead(k, FALSE)

IntakeSpec == Init /\ [][IntakeNext]_vars

\* ------------------------------------------------------------- captioning
\* what ai.models.generateContent answers: it throws, or responds with a text
\* (words and spaces; no text at all reads as the empty text)
Responses ==
  {[ok |-> FALSE, text |-> <<>>]}
    \cup [ok : {TRUE}, text : {<<>>, <<" ">>, <<" ", "gato", " ">>, <<"gato", " ", "preto">>}]

\* the text stored when the model's answer is empty
Placeholder == <<"Descrição não disponível.">>

\* String.prototype.trim
RECURSIVE TrimStart(_)
TrimStart(text) ==
  IF text # <<>> /\ Head(text) = " " THEN TrimStart(Tail(text)) ELSE text

RECURSIVE TrimEnd(_)
TrimEnd(text) ==
  IF text # <<>> /\ text[Len(text)] = " " THEN TrimEnd(SubSeq(text, 1, Len(text) - 1)) ELSE text

Trim(text) == TrimEnd(TrimStart(text))

\* generateImageAltText: the outcome for an API key (present or not) and a response
GenerateImageAltText(apiKey, response) ==
  IF ~apiKey \/ ~response.ok
  THEN [ok |-> FALSE, text |-> <<>>]
  ELSE [ok |-> TRUE,
        text |-> IF Trim(response.text) = <<>> THEN Placeholder ELSE Trim(response.text)]

\* `image.altText ? ... : ...` of the card
Truthy(altText) == altText.defined /\ altText.text # <<>>

\* setImages(prev => prev.map(p => p.id === id ? { ...p, isGeneratingAlt: true } : p))
SetGenerating(prev, id) ==
  [i \in DOMAIN prev |->
     IF prev[i].id = id THEN [prev[i] EXCEPT !.isGeneratingAlt = TRUE] ELSE prev[i]]

\* mutant: storing the caption makes the item IDLE again
ApplyAltText_ResetsStatus(prev, id, text) ==
  [i \in DOMAIN prev |->
     IF prev[i].id = id
     THEN [prev[i] EXCEPT !.altText = [defined |-> TRUE, text |-> text],
                          !.isGeneratingAlt = FALSE, !.status = IDLE]
     ELSE prev[i]]

\* the updater after the caption arrived
ApplyAltText(prev, id, text) ==
  [i \in DOMAIN prev |->
     IF prev[i].id = id
     THEN [prev[i] EXCEPT !.altText = [defined |-> TRUE, text |-> text],
                          !.isGeneratingAlt = FALSE]
     ELSE prev[i]]

\* mutant: a failed request leaves the item generating
ApplyAltFailed_StillGenerating(prev, id) == prev

\* the updater of the catch branch
ApplyAltFailed(prev, id) ==
  [i \in DOMAIN prev |->
     IF prev[i].id = id THEN [prev[i] EXCEPT !.isGeneratingAlt = FALSE] ELSE prev[i]]

\* handleGenerateAlt(id) up to its await, from the "Gerar com AI" button of a
\* rendered item: the button is shown while the item has no caption and is
\* disabled while one is generated; the click before this one has been rendered
HandleGenerateAlt(id) ==
  /\ id \in IdsOf(rendered)
  /\ ~Truthy(ItemOf(rendered, id).altText)
  /\ ~ItemOf(rendered, id).isGeneratingAlt
  /\ id \in IdsOf(images)
  /\ ~Truthy(ItemOf(images, id).altText)
  /\ ~ItemOf(images, id).isGeneratingAlt
  /\ images' = SetGenerating(images, id)
  /\ dirty' = TRUE
  /\ captions' = Append(captions, id)
  /\ UNCHANGED <<rendered, effectPending, tasks, intake, globalSettings, nextId,
                 nextUrl, released, picks, resets, invoked, isZipping, zipping, downloaded>>

\* `await generateImageAltText(...)` of the c-th running call returns a text
GenerateAltResolved(c, response) ==
  /\ c \in DOMAIN captions
  /\ GenerateImageAltText(TRUE, response).ok
  /\ images' = ApplyAltText(images, captions[c], GenerateImageAltText(TRUE, response).text)
  /\ dirty' = TRUE
  /\ captions' = RemoveAt(captions, c)
  /\ UNCHANGED <<rendered, effectPending, tasks, intake, globalSettings, nextId,
                 nextUrl, released, picks, resets, invoked, isZipping, zipping, downloaded>>

\* `await generateImageAltText(...)` of the c-th running call throws
GenerateAltRejected(c, apiKey, response) ==
  /\ c \in DOMAIN captions
  /\ ~GenerateImageAltText(apiKey, response).ok
  /\ images' = ApplyAltFailed(images, captions[c])
  /\ dirty' = TRUE
  /\ captions' = RemoveAt(captions, c)
  /\ UNCHANGED <<rendered, effectPending, tasks, intake, globalSettings, nextId,
                 nextUrl, released, picks, resets, invoked, isZipping, zipping, downloaded>>

\* the caption requests together with the life of the items they are made for
CaptionNext ==
  \/ Render
  \/ ProcessIdleImagesNone
  \/ ProcessIdleImages
  \/ \E t \in DOMAIN tasks : ConvertResolved(t)
  \/ \E t \in DOMAIN tasks : ConvertRejected(t)
  \/ \E id \in Ids : HandleRemove(id)
  \/ \E fileList \in FileLists : HandleFiles(fileList)
  \/ \E k \in DOMAIN intake : FileRead(k, TRUE)
  \/ \E k \in DOMAIN intake : FileRead(k, FALSE)
  \/ \E id \in Ids : HandleGenerateAlt(id)
  \/ \E c \in DOMAIN captions, response \in Responses : GenerateAltResolved(c, response)
  \/ \E c \in DOMAIN captions, apiKey \in BOOLEAN, response \in Responses :
       GenerateAltRejected(c, apiKey, response)

CaptionSpec == Init /\ [][CaptionNext]_vars

\* the answers of the caption service told apart here: a failure and one text
SomeResponses == {r \in Responses : ~r.ok \/ r.text = <<"gato", " ", "preto">>}

\* captioning together with conversions and settings updates of the same items
IndependenceNext ==
  \/ Render
  \/ ProcessIdleImagesNone
  \/ ProcessIdleImages
  \/ \E t \in DOMAIN tasks : ConvertResolved(t)
  \/ \E t \in DOMAIN tasks : ConvertRejected(t)
  \/ \E id \in Ids, newSettings \in PartialSettings : HandleUpdateImageSettings(id, newSettings)
  \/ ClearAll
  \/ \E fileList \in FileLists : HandleFiles(fileList)
  \/ \E k \in DOMAIN intake : FileRead(k, TRUE)
  \/ \E id \in Ids : HandleGenerateAlt(id)
  \/ \E c \in DOMAIN captions, response \in SomeResponses : GenerateAltResolved(c, response)
  \/ \E c \in DOMAIN captions, apiKey \in BOOLEAN, response \in SomeResponses :
       GenerateAltRejected(c, apiKey, response)

IndependenceSpec == Init /\ [][IndependenceNext]_vars

\* captioning together with removals of every kind
RemovalNext ==
  \/ CaptionNext
  \/ ClearAll

RemovalSpec == Init /\ [][RemovalNext]_vars

\* ------------------------------------------------------------ properties
HasOutput(img) ==
  img.convertedBlob # NullBlob \/ img.convertedUrl # NullUrl \/ img.convertedSize # 0

NoOutput(img) ==
  img.convertedBlob = NullBlob /\ img.convertedUrl = NullUrl /\ img.convertedSize = 0

\* the status changes the specification allows
AllowedTransitions ==
  {<<IDLE, CONVERTING>>, <<CONVERTING, COMPLETED>>, <<CONVERTING, ERROR>>}
    \cup {<<s, IDLE>> : s \in ProcessingStatus}

\* the item `id` has a new status, or is COMPLETED again with another blob or URL
StatusChanged(id) ==
  LET before == ItemOf(images, id)
      after == ItemOf(images', id)
  IN \/ before.status # after.status
     \/ /\ after.status = COMPLETED
        /\ <<before.convertedBlob, before.convertedUrl>> # <<after.convertedBlob, after.convertedUrl>>

\* C1: every item enters the collection with status IDLE, and every later
\* status change of an item is IDLE->CONVERTING, CONVERTING->COMPLETED,
\* CONVERTING->ERROR or any->IDLE; a COMPLETED item never gets a new blob
\* without leaving COMPLETED first.
C1_OnlyAllowedTransitions ==
  [][/\ \A id \in IdsOf(images') \ IdsOf(images) : ItemOf(images', id).status = IDLE
     /\ \A id \in IdsOf(images) \cap IdsOf(images') :
          StatusChanged(id) =>
            <<ItemOf(images, id).status, ItemOf(images', id).status>> \in AllowedTransitions]_vars

\* C2: a COMPLETED item has an output blob, an output URL and a convertedSize
\* equal to the size of that blob, which is positive.
C2_CompletedHasOutput ==
  \A i \in DOMAIN images :
    images[i].status = COMPLETED =>
      /\ images[i].convertedBlob # NullBlob
      /\ images[i].convertedUrl # NullUrl
      /\ images[i].convertedSize = images[i].convertedBlob.size
      /\ images[i].convertedSize > 0

\* C2 witness: an item was converted a second time and is COMPLETED with the
\* blob of its second conversion
C2_Witness ==
  \E i \in DOMAIN images :
    /\ images[i].status = COMPLETED
    /\ picks[images[i].id] = 2
    /\ images[i].convertedUrl = 2

\* C3 as stated: an item that is not COMPLETED has no blob, no URL and size 0.
C3_NoOutputUnlessCompleted ==
  \A i \in DOMAIN images : images[i].status # COMPLETED => NoOutput(images[i])

\* C3 as amended: the three output fields of an item are absent together or
\* present together, they are absent when the item is created, and the only
\* step that changes them is the completion of a conversion (which makes the
\* item COMPLETED); a settings update and a failed conversion leave the output
\* of an earlier completion in the item, so IDLE, CONVERTING and ERROR items
\* have no output only as long as no conversion of theirs has completed.
C3_OutputSetOnlyByCompletion ==
  /\ [](\A i \in DOMAIN images : HasOutput(images[i]) =>
                                 /\ images[i].convertedBlob # NullBlob
                                 /\ images[i].convertedUrl # NullUrl
                                 /\ images[i].convertedSize = images[i].convertedBlob.size)
  /\ [][/\ \A id \in IdsOf(images') \ IdsOf(images) : NoOutput(ItemOf(images', id))
        /\ \A id \in IdsOf(images) \cap IdsOf(images') :
             LET before == ItemOf(images, id)
                 after == ItemOf(images', id)
             IN <<before.convertedBlob, before.convertedUrl, before.convertedSize>>
                  # <<after.convertedBlob, after.convertedUrl, after.convertedSize>>
                => after.status = COMPLETED /\ HasOutput(after)]_vars

\* C3 witness: a re-conversion of an item that had completed before failed, and
\* the item is in ERROR with the output of the earlier conversion
C3_Witness ==
  \E i \in DOMAIN images :
    /\ images[i].status = ERROR
    /\ images[i].convertedBlob # NullBlob
    /\ images[i].convertedBlob.format # images[i].settings.format

\* C4: the blob of a COMPLETED item was produced by a conversion called with
\* the format and the quality the item has now.
C4_CompletedMatchesSettings ==
  \A i \in DOMAIN images :
    images[i].status = COMPLETED =>
      /\ images[i].convertedBlob.format = images[i].settings.format
      /\ images[i].convertedBlob.quality = images[i].settings.quality

\* the step is a settings update of the item `id` that is in the collection
IsSettingsUpdate(id) ==
  /\ id \in IdsOf(images)
  /\ \E newSettings \in PartialSettings : HandleUpdateImageSettings(id, newSettings)

\* C5 as stated: a settings update makes the item IDLE, sets its blob and URL
\* to null and has released the URL it held.
C5_UpdateDiscardsOutput ==
  [][\A id \in Ids :
       IsSettingsUpdate(id) =>
         /\ ItemOf(images', id).status = IDLE
         /\ ItemOf(images', id).convertedBlob = NullBlob
         /\ ItemOf(images', id).convertedUrl = NullUrl
         /\ ItemOf(images, id).convertedUrl # NullUrl =>
              released'[ItemOf(images, id).convertedUrl] > 0]_vars

\* C5 as amended: a settings update makes the item IDLE from any state and
\* leaves its convertedBlob, convertedUrl and convertedSize as they were; it
\* releases no preview resource (the URL the item holds is released later, by
\* the completion that replaces it or by the removal of the item).
C5_UpdateKeepsOutput ==
  [][\A id \in Ids :
       IsSettingsUpdate(id) =>
         /\ ItemOf(images', id).status = IDLE
         /\ ItemOf(images', id).convertedBlob = ItemOf(images, id).convertedBlob
         /\ ItemOf(images', id).convertedUrl = ItemOf(images, id).convertedUrl
         /\ ItemOf(images', id).convertedSize = ItemOf(images, id).convertedSize
         /\ released' = released]_vars

\* C5 witness: a settings update was applied to an item that held an output:
\* the item is IDLE and still holds the URL, which has not been released
C5_Witness ==
  \E i \in DOMAIN images :
    /\ images[i].status = IDLE
    /\ resets[images[i].id] = 2
    /\ images[i].convertedUrl # NullUrl
    /\ released[images[i].convertedUrl] = 0

\* nothing is queued, scheduled or outstanding: no render, no effect and no
\* conversion result is still to come
Settled == ~dirty /\ ~effectPending /\ tasks = <<>> /\ intake = <<>>

\* C6: after a settings update on an item that stays in the collection, a
\* conversion of the item with the updated settings is started: when nothing
\* is left to run, the converter has been called for every item with the
\* settings the item has.
C6_LatestSettingsConverted ==
  Settled => \A i \in DOMAIN images : images[i].settings \in invoked[images[i].id]

\* the processIdleImages call the step started, if it started one
StartedBatch == tasks'[Len(tasks')].idleImages

\* C7: the watcher picks only items that are IDLE in the collection it reads
\* and never an item that is CONVERTING, it picks an item at most once per
\* batch, and over a run an item is picked at most once for each time it was
\* made IDLE (its creation and its settings updates): no marking is followed
\* by two converter calls, however the watcher's runs overlap.
C7_NoDoublePick ==
  /\ [](\A id \in Ids : picks[id] <= resets[id])
  /\ [][Len(tasks') > Len(tasks) =>
          /\ \A k \in DOMAIN StartedBatch :
               /\ StartedBatch[k].status = IDLE
               /\ StartedBatch[k] \in {rendered[j] : j \in DOMAIN rendered}
               /\ StartedBatch[k].id \in IdsOf(images) =>
                    ItemOf(images, StartedBatch[k].id).status # CONVERTING
          /\ \A k, l \in DOMAIN StartedBatch :
               StartedBatch[k].id = StartedBatch[l].id => k = l
          /\ \A id \in Ids :
               picks'[id] = picks[id] + (IF id \in IdsOf(StartedBatch) THEN 1 ELSE 0)]_vars

\* C7 witness: two runs of the watcher overlap (both still converting), an item
\* was picked by each of them, once per time it was made IDLE
C7_Witness ==
  /\ Len(tasks) = 2
  /\ \E id \in Ids :
       /\ picks[id] = 2
       /\ resets[id] = 2
       /\ Current(tasks[1]).id = id
       /\ Current(tasks[2]).id = id

\* C8: an item in ERROR stays in ERROR until a settings update makes it IDLE
\* (or it is removed).
C8_ErrorUntilSettingsUpdate ==
  [][\A id \in IdsOf(images) \cap IdsOf(images') :
       ItemOf(images, id).status = ERROR =>
         \/ ItemOf(images', id).status = ERROR
         \/ IsSettingsUpdate(id)]_vars

\* C9: a failed conversion changes nothing but the status of its own item,
\* which becomes ERROR: every other item, the order and the length of the
\* collection and the released URLs stay as they are, and the loop goes on to
\* the next item of the same batch, whose conversion is then outstanding.
C9_FailureIsLocal ==
  [][\A t \in DOMAIN tasks :
       ConvertRejected(t) =>
         LET failed == Current(tasks[t]) IN
           /\ Len(images') = Len(images)
           /\ \A i \in DOMAIN images :
                IF images[i].id = failed.id
                THEN images'[i] = [images[i] EXCEPT !.status = ERROR]
                ELSE images'[i] = images[i]
           /\ released' = released
           /\ tasks[t].i < Len(tasks[t].idleImages) =>
                /\ Len(tasks') = Len(tasks)
                /\ tasks'[t].idleImages = tasks[t].idleImages
                /\ tasks'[t].i = tasks[t].i + 1
                /\ Current(tasks'[t]).settings \in invoked'[Current(tasks'[t]).id]
           /\ \A u \in DOMAIN tasks : u # t => tasks[u] \in {tasks'[v] : v \in DOMAIN tasks'}]_vars

\* C9 witness: the first item of a batch of two failed and is in ERROR, the
\* second item of the batch was converted after it and is COMPLETED
C9_Witness ==
  /\ Len(images) = 2
  /\ images[1].status = ERROR
  /\ images[2].status = COMPLETED
  /\ picks[1] = 1 /\ picks[2] = 1
  /\ resets[1] = 1 /\ resets[2] = 1
  /\ nextUrl = 2

\* C10: after clear-all no object URL that was created is left unreleased.
C10_ClearAllReleasesEverything ==
  [][ClearAll => \A url \in DOMAIN released' : released'[url] > 0]_vars

\* the release counts after exactly one more release of `url` (none if null)
ReleasedOnce(url) ==
  [u \in DOMAIN released |-> released[u] + (IF u = url THEN 1 ELSE 0)]

\* the URL the item `id` of the collection holds (NullUrl if none)
HeldUrl(id) == ItemOf(images, id).convertedUrl

\* C11: the removal of an item releases the URL the item holds and no other;
\* a completion that replaces an item's output releases the URL the item held
\* and no other, and the URL it installs is new and not released.
C11_ReleaseOnRemoveAndReplace ==
  [][/\ \A id \in IdsOf(images) :
          HandleRemove(id) =>
            /\ released' = ReleasedOnce(HeldUrl(id))
            /\ \A j \in DOMAIN images' : images'[j] \in {images[i] : i \in DOMAIN images}
     /\ \A t \in DOMAIN tasks :
          (ConvertResolved(t) /\ Current(tasks[t]).id \in IdsOf(images)) =>
            LET id == Current(tasks[t]).id
                new == ItemOf(images', id).convertedUrl
            IN /\ new \notin DOMAIN released
               /\ new # NullUrl
               /\ DOMAIN released' = DOMAIN released \cup {new}
               /\ released'[new] = 0
               /\ \A u \in DOMAIN released : released'[u] = ReleasedOnce(HeldUrl(id))[u]
               /\ \A j \in DOMAIN images :
                    images[j].id # id => images'[j] = images[j]]_vars

\* C11 witness: a second completion replaced the output of an item while
\* another item holds its own URL: the replaced URL is released, the others not
C11_Witness ==
  /\ Len(images) = 2
  /\ nextUrl = 4
  /\ \E i, j \in DOMAIN images, u, v, w \in DOMAIN released :
       /\ i # j
       /\ images[i].convertedUrl = u /\ released[u] = 0
       /\ images[j].convertedUrl = v /\ released[v] = 0
       /\ w \notin {u, v} /\ released[w] = 1

\* C12: no object URL is released more than once, and the URL an item of the
\* collection holds is not released.
C12_ReleasedOnceNeverHeld ==
  /\ \A u \in DOMAIN released : released[u] <= 1
  /\ \A i \in DOMAIN images :
       images[i].convertedUrl # NullUrl => released[images[i].convertedUrl] = 0
  /\ \A i, j \in DOMAIN images :
       (i # j /\ images[i].convertedUrl # NullUrl) =>
         images[i].convertedUrl # images[j].convertedUrl

\* C12 witness: three URLs were created and one item is left: it holds one of
\* them, unreleased, and each of the two others was released exactly once
C12_Witness ==
  /\ Len(images) = 1
  /\ nextUrl = 4
  /\ \E u \in DOMAIN released :
       /\ images[1].convertedUrl = u
       /\ released[u] = 0
       /\ \A v \in DOMAIN released : v # u => released[v] = 1

\* C13: a change of the global settings changes nothing else: the
\* collection, its rendered copy, the running conversions and intakes and the
\* pending render and effect are as before.
C13_GlobalSettingsLeaveItems ==
  [][globalSettings' # globalSettings =>
       UNCHANGED <<images, rendered, dirty, effectPending, tasks, intake, nextId,
                   nextUrl, released, picks, resets, invoked>>]_vars

\* C13 witness: the global format and quality were both changed after an item
\* was created, and the item has the settings it was created with
C13_Witness ==
  /\ globalSettings = [format |-> AVIF, quality |-> OtherQuality]
  /\ \E i \in DOMAIN images :
       /\ images[i].settings = [format |-> WEBP, quality |-> DefaultQuality]
       /\ resets[images[i].id] = 1
       /\ images[i].status = COMPLETED

\* -------------------------------------------------------------- downloads
\* `${counter}`: the decimal digits of a number
Digit(d) == <<"0", "1", "2", "3", "4", "5", "6", "7", "8", "9">>[d + 1]

RECURSIVE Decimal(_)
Decimal(n) == IF n < 10 THEN <<Digit(n)>> ELSE Decimal(n \div 10) \o <<Digit(n % 10)>>

\* position of the last "." of a name, 0 when it has none
RECURSIVE LastDot(_)
LastDot(name) ==
  IF name = <<>> THEN 0
  ELSE IF name[Len(name)] = "." THEN Len(name)
  ELSE LastDot(SubSeq(name, 1, Len(name) - 1))

\* name.replace(/\.[^/.]+$/, ""): a last "." followed by one or more
\* characters other than "/" and "." is cut off with what follows it
Stem(name) ==
  LET p == LastDot(name) IN
    IF p # 0 /\ p < Len(name) /\ \A k \in (p + 1)..Len(name) : name[k] # "/"
    THEN SubSeq(name, 1, p - 1)
    ELSE name

\* mutant: the extension is taken from the format the item's settings request
Ext_OfRequestedFormat(img) == TypeOfFormat(img.settings.format).sub

\* mime.split('/')[1], with 'jpeg' turned into 'jpg'
Ext(img) ==
  LET ext == img.convertedBlob.type.sub IN
    IF ext = <<"j", "p", "e", "g">> THEN <<"j", "p", "g">> ELSE ext

\* `${name}_opti`
BaseName(img) == Stem(img.originalFile.name) \o <<"_", "o", "p", "t", "i">>

\* `${baseName}.${ext}`
FileName(img) == BaseName(img) \o <<".">> \o Ext(img)

\* `${baseName}_(${counter}).${ext}`
Suffixed(img, counter) ==
  BaseName(img) \o <<"_", "(">> \o Decimal(counter) \o <<")", ".">> \o Ext(img)

\* mutant: a name already used is used again
UniqueName_Reused(usedNames, img, fileName, counter) == fileName

\* while (usedNames.has(fileName)) { fileName = ...; counter++ }
RECURSIVE UniqueName(_, _, _, _)
UniqueName(usedNames, img, fileName, counter) ==
  IF fileName \in usedNames
  THEN UniqueName(usedNames, img, Suffixed(img, counter), counter + 1)
  ELSE fileName

\* zip.file(name, blob): a new entry, or the entry of that name overwritten
ZipFile(zip, name, blob) ==
  IF \E e \in DOMAIN zip : zip[e].name = name
  THEN [e \in DOMAIN zip |-> IF zip[e].name = name THEN [name |-> name, blob |-> blob] ELSE zip[e]]
  ELSE Append(zip, [name |-> name, blob |-> blob])

\* completedImages.forEach(...)
RECURSIVE ZipAll(_, _, _)
ZipAll(zip, usedNames, completedImages) ==
  IF completedImages = <<>> THEN zip
  ELSE LET img == Head(completedImages)
           fileName == UniqueName(usedNames, img, FileName(img), 1)
       IN ZipAll(ZipFile(zip, fileName, img.convertedBlob), usedNames \cup {fileName},
                 Tail(completedImages))

\* mutant: every item holding a blob is archived
CompletedImages_AnyStatus(imgs) == SelectSeq(imgs, LAMBDA img : img.convertedBlob # NullBlob)

\* images.filter(img => img.status === COMPLETED && img.convertedBlob)
CompletedImages(imgs) ==
  SelectSeq(imgs, LAMBDA img : img.status = COMPLETED /\ img.convertedBlob # NullBlob)

\* the name the archive is downloaded under
ZipName == <<"optipix_otimizadas.zip">>

\* handleDownload(id), from the "Baixar" button of a rendered COMPLETED item
HandleDownload(id) ==
  /\ id \in IdsOf(rendered)
  /\ ItemOf(rendered, id).status = COMPLETED
  /\ LET img == ItemOf(rendered, id) IN
       IF img.convertedBlob # NullBlob
       THEN downloaded' = [name |-> FileName(img), blob |-> img.convertedBlob, entries |-> <<>>]
       ELSE UNCHANGED downloaded
  /\ UNCHANGED <<images, rendered, dirty, effectPending, tasks, intake, globalSettings,
                 nextId, nextUrl, released, picks, resets, invoked, captions, isZipping,
                 zipping>>

\* handleDownloadAllZip up to its await. The button is disabled while an
\* archive is generated; the handler itself returns when nothing is completed
HandleDownloadAllZip ==
  /\ ~isZipping
  /\ LET completedImages == CompletedImages(rendered) IN
       IF Len(completedImages) = 0
       THEN UNCHANGED <<isZipping, zipping>>
       ELSE /\ isZipping' = TRUE
            /\ zipping' = Append(zipping, ZipAll(<<>>, {}, completedImages))
  /\ UNCHANGED <<images, rendered, dirty, effectPending, tasks, intake, globalSettings,
                 nextId, nextUrl, released, picks, resets, invoked, captions, downloaded>>

\* `await zip.generateAsync(...)` returns the archive (ok) or throws
ZipGenerated(ok) ==
  /\ zipping # <<>>
  /\ IF ok
     THEN downloaded' = [name |-> ZipName, blob |-> NullBlob, entries |-> Head(zipping)]
     ELSE UNCHANGED downloaded
  /\ isZipping' = FALSE
  /\ zipping' = Tail(zipping)
  /\ UNCHANGED <<images, rendered, dirty, effectPending, tasks, intake, globalSettings,
                 nextId, nextUrl, released, picks, resets, invoked, captions>>

\* the collections the download handlers are checked on
FileNames ==
  {<<"a", ".", "p", "n", "g">>, <<"a", ".", "j", "p", "g">>, <<"a", ".">>,
   <<"b", ".", "c", ".", "p", "n", "g">>}

\* a blob of the given MIME subtype, as a conversion to AVIF produced it
BlobOfType(sub) == [ConvertedBlob(AVIF, DefaultQuality) EXCEPT !.type = MimeType(sub)]

\* status and output of an item: completed as AVIF, completed as JPEG (the
\* encoder fell back), reset with the output of the earlier conversion, or without output
OutputStates ==
  {[status |-> COMPLETED, blob |-> BlobOfType(<<"a", "v", "i", "f">>)],
   [status |-> COMPLETED, blob |-> BlobOfType(<<"j", "p", "e", "g">>)],
   [status |-> IDLE, blob |-> BlobOfType(<<"a", "v", "i", "f">>)],
   [status |-> CONVERTING, blob |-> NullBlob],
   [status |-> ERROR, blob |-> NullBlob]}

ZipItem(id, name, out) ==
  [NewImage(id, [name |-> name, type |-> <<"image", "png">>, size |-> 9],
            [format |-> AVIF, quality |-> DefaultQuality])
     EXCEPT !.status = out.status,
            !.convertedBlob = out.blob,
            !.convertedUrl = IF out.blob = NullBlob THEN NullUrl ELSE id,
            !.convertedSize = out.blob.size]

ZipInit ==
  /\ \E n \in 0..MaxZipItems :
       \E names \in [1..n -> FileNames], outs \in [1..n -> OutputStates] :
         /\ rendered = [i \in 1..n |-> ZipItem(i, names[i], outs[i])]
         /\ nextId = n + 1
         /\ nextUrl = n + 1
         /\ released = [u \in 1..n |-> IF outs[u].blob = NullBlob THEN 1 ELSE 0]
  /\ images = rendered
  /\ dirty = FALSE
  /\ effectPending = FALSE
  /\ tasks = <<>>
  /\ intake = <<>>
  /\ globalSettings = [format |-> WEBP, quality |-> DefaultQuality]
  /\ picks = [id \in Ids |-> 0]
  /\ resets = [id \in Ids |-> 0]
  /\ invoked = [id \in Ids |-> {}]
  /\ captions = <<>>
  /\ isZipping = FALSE
  /\ zipping = <<>>
  /\ downloaded = NoDownload

ZipNext ==
  \/ \E id \in IdsOf(rendered) : HandleDownload(id)
  \/ HandleDownloadAllZip
  \/ ZipGenerated(TRUE)
  \/ ZipGenerated(FALSE)

ZipSpec == ZipInit /\ [][ZipNext]_vars

\* the ids the running handleGenerateAlt calls were made for
Requested(calls) == {calls[c] : c \in DOMAIN calls}

\* C14: a caption request sets isGeneratingAlt; when the service fails the item
\* is left without altText and with isGeneratingAlt false, when it succeeds
\* altText is the text the service returned and isGeneratingAlt is false; an
\* item is generating only while a request for it is running
C14_CaptionRequestOutcome ==
  [][\A id \in IdsOf(images) \cap IdsOf(images') :
       LET old == ItemOf(images, id)
           new == ItemOf(images', id)
       IN /\ HandleGenerateAlt(id) => new.isGeneratingAlt
          /\ \A c \in DOMAIN captions :
               captions[c] = id =>
                 /\ \A apiKey \in BOOLEAN, response \in Responses :
                      GenerateAltRejected(c, apiKey, response) =>
                        new.altText = NoAltText /\ ~new.isGeneratingAlt
                 /\ \A response \in Responses :
                      GenerateAltResolved(c, response) =>
                        /\ new.altText.defined
                        /\ new.altText.text = GenerateImageAltText(TRUE, response).text
                        /\ new.altText.text # <<>>
                        /\ ~new.isGeneratingAlt
          /\ new.isGeneratingAlt => id \in Requested(captions')
          /\ new.isGeneratingAlt # old.isGeneratingAlt => captions' # captions
          /\ new.altText # old.altText => Len(captions') < Len(captions)]_vars

\* a failed request and a successful one have both come back: one item is
\* left without a caption, the other holds the trimmed text, none is generating
C14_Witness ==
  /\ Len(images) = 2
  /\ captions = <<>>
  /\ images[1].altText = NoAltText
  /\ images[2].altText = [defined |-> TRUE, text |-> <<"gato", " ", "preto">>]
  /\ ~images[1].isGeneratingAlt /\ ~images[2].isGeneratingAlt
  /\ images[1].status = COMPLETED
\* the archives built so far: the ones being generated and the one downloaded
Archives ==
  {zipping[z] : z \in DOMAIN zipping}
    \cup (IF downloaded.name = ZipName THEN {downloaded.entries} ELSE {})

\* the rendered items that are COMPLETED, in collection order
RenderedCompleted == SelectSeq(rendered, LAMBDA img : img.status = COMPLETED)

\* the extension for a MIME subtype
ExtensionOf(sub) == IF sub = <<"j", "p", "e", "g">> THEN <<"j", "p", "g">> ELSE sub

\* `<stem>_opti.<ext>`
DerivedName(img) ==
  Stem(img.originalFile.name) \o <<"_", "o", "p", "t", "i", ".">>
    \o ExtensionOf(img.convertedBlob.type.sub)

\* how many items before the i-th have the derived name of the i-th
EarlierSame(done, i) == Cardinality({j \in 1..(i - 1) : DerivedName(done[j]) = DerivedName(done[i])})

\* C15: an archive has one entry per completed item, the entry names are
\* pairwise distinct, the first item of a derived name is entered as
\* <stem>_opti.<ext> and the k-th later item of that name as <stem>_opti_(k).<ext>
C15_ArchiveNamesDistinct ==
  \A zip \in Archives :
    LET done == RenderedCompleted IN
      /\ Len(zip) = Len(done)
      /\ \A i, j \in DOMAIN zip : i # j => zip[i].name # zip[j].name
      /\ \A i \in DOMAIN zip :
           LET k == EarlierSame(done, i) IN
             /\ zip[i].blob = done[i].convertedBlob
             /\ zip[i].name =
                  IF k = 0 THEN DerivedName(done[i])
                  ELSE Stem(done[i].originalFile.name)
                         \o <<"_", "o", "p", "t", "i", "_", "(">> \o Decimal(k) \o <<")", ".">>
                         \o ExtensionOf(done[i].convertedBlob.type.sub)

\* three completed items of one derived name are archived as a_opti.avif,
\* a_opti_(1).avif and a_opti_(2).avif
C15_Witness ==
  /\ downloaded.name = ZipName
  /\ Len(downloaded.entries) = 3
  /\ downloaded.entries[1].name = <<"a", "_", "o", "p", "t", "i", ".", "a", "v", "i", "f">>
  /\ downloaded.entries[2].name =
       <<"a", "_", "o", "p", "t", "i", "_", "(", "1", ")", ".", "a", "v", "i", "f">>
  /\ downloaded.entries[3].name =
       <<"a", "_", "o", "p", "t", "i", "_", "(", "2", ")", ".", "a", "v", "i", "f">>

\* C16: an archive has entries for the COMPLETED items only; IDLE, CONVERTING
\* and ERROR items add none, even when they hold a blob, and nothing is
\* archived when no item is COMPLETED
C16_ArchiveOnlyCompleted ==
  /\ [](/\ \A zip \in Archives :
            /\ Len(zip) = Cardinality({i \in DOMAIN rendered : rendered[i].status = COMPLETED})
            /\ Len(zip) > 0
        /\ isZipping => zipping # <<>>)
  /\ [][HandleDownloadAllZip =>
          IF \E i \in DOMAIN rendered : rendered[i].status = COMPLETED
          THEN /\ Len(zipping') = Len(zipping) + 1
               /\ LET zip == zipping'[Len(zipping')]
                      done == RenderedCompleted
                  IN /\ Len(zip) = Len(done)
                     /\ \A i \in DOMAIN zip : zip[i].blob = done[i].convertedBlob
          ELSE UNCHANGED vars]_vars

\* a collection of a COMPLETED item and an IDLE item that still holds a blob
\* was archived: the archive has the one entry
C16_Witness ==
  /\ Len(rendered) = 2
  /\ rendered[1].status = IDLE /\ rendered[1].convertedBlob # NullBlob
  /\ rendered[2].status = COMPLETED
  /\ downloaded.name = ZipName
  /\ Len(downloaded.entries) = 1
  /\ downloaded.entries[1].blob = rendered[2].convertedBlob

\* the last characters of a name
Ending(name, n) == IF Len(name) < n THEN <<>> ELSE SubSeq(name, Len(name) - n + 1, Len(name))

\* the name ends with "." and the extension of the blob's MIME subtype
NamedAfterBlob(name, blob) ==
  LET ext == <<".">> \o ExtensionOf(blob.type.sub) IN Ending(name, Len(ext)) = ext

\* C17: the name of a downloaded file and of an archive entry ends with the
\* extension of the blob's own MIME subtype, jpeg written as jpg, whatever
\* format the item's settings request
C17_ExtensionFromBlobType ==
  /\ (downloaded # NoDownload /\ downloaded.name # ZipName) =>
       /\ NamedAfterBlob(downloaded.name, downloaded.blob)
       /\ \E i \in DOMAIN rendered :
            /\ rendered[i].convertedBlob = downloaded.blob
            /\ downloaded.name = DerivedName(rendered[i])
  /\ \A zip \in Archives : \A e \in DOMAIN zip : NamedAfterBlob(zip[e].name, zip[e].blob)

\* an item requesting AVIF whose blob is image/jpeg was downloaded alone as
\* a_opti.jpg and is in the archive under the same name
C17_Witness ==
  /\ Len(rendered) = 1
  /\ rendered[1].settings.format = AVIF
  /\ rendered[1].convertedBlob.type = MimeType(<<"j", "p", "e", "g">>)
  /\ downloaded.name = <<"a", "_", "o", "p", "t", "i", ".", "j", "p", "g">>
  /\ downloaded.blob = rendered[1].convertedBlob
  /\ zipping # <<>>
  /\ zipping[1][1].name = <<"a", "_", "o", "p", "t", "i", ".", "j", "p", "g">>
\* the files of a batch that are of an image type, in input order
OfImageType(fileList) == SelectSeq(fileList, LAMBDA file : file.type[1] = "image")

\* of the files read one after another, those whose read succeeded
RECURSIVE ReadOk(_, _)
ReadOk(files, reads) ==
  IF files = <<>> \/ reads = <<>> THEN <<>>
  ELSE IF Head(reads) THEN <<Head(files)>> \o ReadOk(Tail(files), Tail(reads))
  ELSE ReadOk(Tail(files), Tail(reads))

\* C18: when the last file of a batch has been read, the image files of the
\* batch whose read succeeded are appended as IDLE items without output, in
\* input order, after the items that are there, which stay as they are; the
\* other files add nothing, and until then the collection is not changed
C18_IntakeAppendsReadableImages ==
  [][\A k \in DOMAIN intake : \A ok \in BOOLEAN :
       FileRead(k, ok) =>
         IF Len(intake[k].files) > 1
         THEN images' = images
         ELSE LET added == ReadOk(OfImageType(intake[k].fileList), Append(intake[k].reads, ok))
              IN /\ Len(images') = Len(images) + Len(added)
                 /\ \A i \in DOMAIN images : images'[i] = images[i]
                 /\ \A j \in DOMAIN added :
                      LET new == images'[Len(images) + j] IN
                        /\ new.originalFile = added[j]
                        /\ new.status = IDLE
                        /\ NoOutput(new)
                        /\ new.id \notin IdsOf(images)
                 /\ \A i, j \in DOMAIN images' : i # j => images'[i].id # images'[j].id]_vars

\* a.png was there and is COMPLETED, then a batch with b.jpg came in: b.jpg
\* is the second item, IDLE, and no call is running any more
C18_Witness ==
  /\ Len(images) = 2
  /\ images[1].originalFile = ImageFile /\ images[1].status = COMPLETED
  /\ images[2].originalFile = JpegFile /\ images[2].status = IDLE
  /\ intake = <<>>
\* C19: an item becomes CONVERTING only in a step of the watcher that starts
\* a batch containing it, so that a converter call is made for every item the
\* watcher marks, also when items were appended after the watcher's
\* collection was rendered
C19_MarkedOnlyIfInBatch ==
  [][\A id \in IdsOf(images) \cap IdsOf(images') :
       (ItemOf(images, id).status # CONVERTING /\ ItemOf(images', id).status = CONVERTING) =>
         /\ Len(tasks') > Len(tasks)
         /\ id \in IdsOf(StartedBatch)]_vars

\* C20: when a batch starts, the converter is called for every item of the
\* batch, without waiting for the conversion of another item to finish
C20_BatchInvokedIndependently ==
  [][Len(tasks') > Len(tasks) =>
       \A k \in DOMAIN StartedBatch : StartedBatch[k].settings \in invoked'[StartedBatch[k].id]]_vars

\* C20, as the loop does it: when a batch starts the converter is called for
\* its first item only; the call for the next item of the batch is made in the
\* step in which the call before it returns or throws; no other step calls the converter
C20_BatchConvertedInOrder ==
  [][/\ Len(tasks') > Len(tasks) =>
          LET first == StartedBatch[1] IN
            /\ tasks'[Len(tasks')].i = 1
            /\ first.settings \in invoked'[first.id]
            /\ \A id \in Ids \ {first.id} : invoked'[id] = invoked[id]
     /\ \A t \in DOMAIN tasks :
          (ConvertResolved(t) \/ ConvertRejected(t)) =>
            IF tasks[t].i < Len(tasks[t].idleImages)
            THEN LET next == tasks[t].idleImages[tasks[t].i + 1] IN
                   /\ Len(tasks') = Len(tasks)
                   /\ tasks'[t] = [tasks[t] EXCEPT !.i = @ + 1]
                   /\ next.settings \in invoked'[next.id]
                   /\ \A id \in Ids \ {next.id} : invoked'[id] = invoked[id]
            ELSE /\ Len(tasks') = Len(tasks) - 1
                 /\ invoked' = invoked
     /\ invoked' # invoked =>
          \/ Len(tasks') > Len(tasks)
          \/ \E t \in DOMAIN tasks : ConvertResolved(t) \/ ConvertRejected(t)]_vars

\* a batch of two items has been started: the conversion of the first is
\* outstanding, the second is CONVERTING and no converter call was made for it
C20_Witness ==
  \E t \in DOMAIN tasks :
    /\ Len(tasks[t].idleImages) = 2
    /\ tasks[t].i = 1
    /\ LET second == tasks[t].idleImages[2] IN
         /\ second.id \in IdsOf(images)
         /\ ItemOf(images, second.id).status = CONVERTING
         /\ invoked[second.id] = {}

\* C21: an item appended to the collection has the global settings of that
\* moment as its settings, also when they were changed while its batch was
\* read; afterwards its settings change only by a settings update on it
C21_NewItemHasCurrentGlobalSettings ==
  [][/\ \A id \in IdsOf(images') \ IdsOf(images) :
          ItemOf(images', id).settings = globalSettings
     /\ \A id \in IdsOf(images) \cap IdsOf(images') :
          ItemOf(images', id).settings # ItemOf(images, id).settings =>
            \E newSettings \in PartialSettings : HandleUpdateImageSettings(id, newSettings)]_vars

\* the value a partial change supplies for a field, or the value the field had
Supplied(newSettings, field, old) == IF newSettings.field = field THEN newSettings.value ELSE old

\* C22: a settings update for an id changes only the item of that id: the
\* supplied field gets the new value, the other field keeps its value, the
\* status becomes IDLE, and the id, the original file, preview and size, the
\* output and the caption fields stay; the other items, the order and the
\* length of the collection stay; an update for an id that is not in the
\* collection leaves the collection as it is
C22_UpdateChangesOnlyItsItem ==
  [][\A id \in Ids, newSettings \in PartialSettings :
       (UNCHANGED <<tasks, intake, effectPending, released, globalSettings>>
          /\ HandleUpdateImageSettings(id, newSettings)) =>
         /\ Len(images') = Len(images)
         /\ \A i \in DOMAIN images :
              LET old == images[i]
                  new == images'[i]
              IN IF old.id # id
                 THEN new = old
                 ELSE /\ new.settings.format = Supplied(newSettings, "format", old.settings.format)
                      /\ new.settings.quality = Supplied(newSettings, "quality", old.settings.quality)
                      /\ new.status = IDLE
                      /\ new.id = old.id
                      /\ new.originalFile = old.originalFile
                      /\ new.previewUrl = old.previewUrl
                      /\ new.originalSize = old.originalSize
                      /\ new.altText = old.altText
                      /\ new.isGeneratingAlt = old.isGeneratingAlt
                      /\ new = [old EXCEPT !.settings = new.settings, !.status = IDLE]]_vars

\* the second item was created and converted with AVIF and the other quality,
\* then its format was set to WEBP: it is IDLE, has kept its quality and its
\* output, and the first item is as it was
C22_Witness ==
  /\ Len(images) = 2
  /\ images[2].settings = [format |-> WEBP, quality |-> OtherQuality]
  /\ images[2].status = IDLE
  /\ images[2].convertedBlob = ConvertedBlob(AVIF, OtherQuality)
  /\ resets[2] = 2
  /\ images[1].status = COMPLETED
  /\ images[1].settings = [format |-> WEBP, quality |-> DefaultQuality]

\* C23: a step of captioning (a request, its success or its failure) leaves
\* the collection's items in place with their status, settings and output,
\* and starts, ends or moves no conversion; every other step (the watcher's
\* marking, a completion, a failure, a settings update) leaves altText and
\* isGeneratingAlt of every item as they were
C23_CaptionAndConversionIndependent ==
  [][/\ captions' # captions =>
          /\ Len(images') = Len(images)
          /\ UNCHANGED <<tasks, picks, resets, invoked, nextUrl, released>>
          /\ \A i \in DOMAIN images :
               /\ images'[i].id = images[i].id
               /\ images'[i].status = images[i].status
               /\ images'[i].settings = images[i].settings
               /\ images'[i].convertedBlob = images[i].convertedBlob
               /\ images'[i].convertedUrl = images[i].convertedUrl
               /\ images'[i].convertedSize = images[i].convertedSize
     /\ captions' = captions =>
          \A id \in IdsOf(images) \cap IdsOf(images') :
            /\ ItemOf(images', id).altText = ItemOf(images, id).altText
            /\ ItemOf(images', id).isGeneratingAlt = ItemOf(images, id).isGeneratingAlt]_vars

\* the first item got its caption while its second conversion, started after
\* a settings update, is outstanding next to the first one
C23_Witness ==
  /\ Len(images) >= 1
  /\ images[1].status = CONVERTING
  /\ images[1].altText.defined
  /\ resets[1] = 2
  /\ Len(tasks) = 2
  /\ Current(tasks[1]).id = 1 /\ Current(tasks[2]).id = 1

\* the converter calls for the item `id` that have not returned or thrown
Outstanding(id) == Cardinality({t \in DOMAIN tasks : Current(tasks[t]).id = id})

\* C24: no item ever has two converter calls outstanding, also when its
\* settings are updated while its conversion is in flight
C24_OneOutstandingPerItem == \A id \in Ids : Outstanding(id) <= 1

\* C24, as the code has it: an item has at most one outstanding converter
\* call for each time it was made IDLE, that is one for its creation and one
\* for each settings update applied to it; an item never updated has at most one
C24_OutstandingAtMostResets == \A id \in Ids : Outstanding(id) <= resets[id]

\* the settings of the first item were updated while its conversion was in
\* flight and the watcher picked it again: two calls for it are outstanding,
\* while the second item, never updated, has one
C24_Witness ==
  /\ resets[1] = 2
  /\ Outstanding(1) = 2
  /\ resets[2] = 1
  /\ Outstanding(2) = 1

\* the item `id` was in the collection and is not any more
Removed(id) == resets[id] >= 1 /\ id \notin IdsOf(images)

\* C25: a conversion result or a caption result for an item that was removed
\* or cleared away leaves the collection as it is and creates and releases
\* no object URL, and a removed item never comes back
C25_LateResultsAreNoOps ==
  [][/\ \A t \in DOMAIN tasks :
          (Removed(Current(tasks[t]).id) /\ (ConvertResolved(t) \/ ConvertRejected(t))) =>
            UNCHANGED <<images, nextUrl, released>>
     /\ \A c \in DOMAIN captions :
          (/\ Removed(captions[c])
           /\ \E apiKey \in BOOLEAN, response \in Responses :
                GenerateAltResolved(c, response) \/ GenerateAltRejected(c, apiKey, response)) =>
            UNCHANGED <<images, nextUrl, released>>
     /\ \A id \in Ids : Removed(id) => id \notin IdsOf(images')]_vars

\* both items of a batch are gone from the collection and the call for the
\* first has come back: the collection is empty, no object URL was ever
\* created, no caption request is running, the loop is at the second item
C25_Witness ==
  /\ images = <<>>
  /\ Removed(1) /\ Removed(2)
  /\ Len(tasks) = 1
  /\ tasks[1].i = 2
  /\ captions = <<>>
  /\ nextUrl = 1
  /\ released = <<>>
====
